---- MODULE Spec2Model ----
(***************************************************************************)
(* Model of the airline dashboard's insight generator                      *)
(* (src/Api_Integration.py: OpenAIAnalyzer, MarketDataAggregator) and      *)
(* aggregation engine (src/app.py: AirlineDataProcessor).                  *)
(*                                                                         *)
(* A flight record (a Python dict) is a TLA+ record whose DOMAIN is the    *)
(* set of keys the dict has: a key the dict lacks is a field the record    *)
(* lacks.  A call that raises is an outcome with raised = TRUE; a call     *)
(* that returns is an outcome with raised = FALSE and the returned value.  *)
(* Prices and demand scores are integers, as generate_sample_data makes    *)
(* them; a date 'YYYY-MM-DD' is its day ordinal, day 0 being a Monday.     *)
(* Formatted sentences are records [text, args]: the template and the      *)
(* numbers interpolated into it.                                           *)
(***************************************************************************)
EXTENDS Integers, Sequences, FiniteSets, TLC

VARIABLES
    ctor_api_key,    \* the api_key argument given to OpenAIAnalyzer(...)
    env_api_key,     \* os.getenv('OPENAI_API_KEY') at construction
    api_key,         \* self.api_key
    flight_data,     \* the record list handed to the operations
    response,        \* what the last requests.post(...) produced, if any was made
    network_calls,   \* number of requests.post(...) calls made so far
    outcome,         \* the last operation called and how it ended
    first_mock,      \* what the first _generate_mock_insights(flight_data) call returned
    routes_data,     \* data_processor.routes_data
    price_trends,    \* data_processor.price_trends
    demand_patterns, \* data_processor.demand_patterns
    rng,             \* what datetime.now() and random will deliver to generate_sample_data
    http_response    \* the last response of a request handler

vars == <<ctor_api_key, env_api_key, api_key, flight_data, response, network_calls, outcome,
          first_mock, routes_data, price_trends, demand_patterns, rng, http_response>>

----------------------------------------------------------------------------
(* Bounds of the model.                                                    *)

MaxCalls == 2          \* outbound calls followed in one behaviour
MaxInsightLen == 2     \* record-list length for the insight generator
MaxAggLen == 3         \* record-list length for the price/demand aggregations
MaxQualityLen == 5     \* record-list length for the data-quality assessment
MaxRoutesLen == 11     \* record-list length for the popular-routes ranking
SampleCount == 2       \* records of one generate_sample_data call (the code's loop runs 100 times)
MaxRedraws == 1        \* destination draws that repeat the origin before one differs

----------------------------------------------------------------------------
(* Python values and helpers.                                              *)

\* Python's None, where a string is expected
None == "<None>"

\* bool(v) of an Optional[str]
Truthy(v) == v # None /\ v # ""

\* a or b
PyOr(a, b) == IF Truthy(a) THEN a ELSE b

Returned(v) == [raised |-> FALSE, exc |-> "", value |-> v]
Raised(e) == [raised |-> TRUE, exc |-> e, value |-> <<>>]

\* an f-string: its template and the numbers interpolated
Sentence(text, args) == [text |-> text, args |-> args]

Range(s) == {s[i] : i \in 1..Len(s)}

RECURSIVE SumSeq(_)
SumSeq(s) == IF s = <<>> THEN 0 ELSE s[1] + SumSeq(Tail(s))

SeqMin(s) == CHOOSE x \in Range(s) : \A y \in Range(s) : x <= y
SeqMax(s) == CHOOSE x \in Range(s) : \A y \in Range(s) : x >= y

\* num/den (num >= 0, den > 0) rounded to the nearest integer, a tie going to the
\* even neighbour: round(x, k) and format(x, '.kf') of the float num/den scaled by
\* 10^k, exact whenever the tie is a binary fraction (den a power of two), which
\* is every tie a list shorter than 20 records can produce.
RoundHalfEven(num, den) ==
    LET q == num \div den
        r == num % den
    IN  IF 2 * r < den THEN q
        ELSE IF 2 * r > den THEN q + 1
        ELSE IF q % 2 = 0 THEN q ELSE q + 1

----------------------------------------------------------------------------
(* pandas.DataFrame(flight_data): one row per record, one column per key   *)
(* any record has; a row lacking a column's key holds NaN there.           *)

Columns(data) == UNION {DOMAIN data[i] : i \in 1..Len(data)}

\* the non-null cells of a column, in row order
ColumnValues(data, col) ==
    LET rows == SelectSeq(data, LAMBDA f : col \in DOMAIN f)
    IN  [i \in 1..Len(rows) |-> rows[i][col]]

\* df.isnull().sum() for one column
NullCount(data, col) == Cardinality({i \in 1..Len(data) : col \notin DOMAIN data[i]})

RECURSIVE SumOver(_, _)
SumOver(S, data) ==
    IF S = {} THEN 0
    ELSE LET c == CHOOSE x \in S : TRUE
         IN  NullCount(data, c) + SumOver(S \ {c}, data)

\* df.isnull().sum().sum()
TotalNulls(data) == SumOver(Columns(data), data)

----------------------------------------------------------------------------
(* The chat-completion endpoint, as requests.post and json see it.         *)

\* no request was posted
NoResponse == [kind |-> "none", status_code |-> 0, body |-> "", content |-> ""]

\* message contents the model may answer with
ContentBundle == "{five-key insight bundle}"
ContentOtherJson == "{\"error\": \"rate limited\"}"
ContentText == "Here are my insights: demand is strong."
Contents == {ContentBundle, ContentOtherJson, ContentText}

\* What requests.post can produce: a transport exception, a non-200 status, a 200
\* whose body is not JSON, a 200 whose JSON lacks choices[0].message.content, and
\* a 200 chat completion carrying a message content.
Responses ==
    {[kind |-> "transport_error", status_code |-> 0, body |-> "", content |-> ""]}
    \cup {[kind |-> "http", status_code |-> s, body |-> "error", content |-> ""] :
            s \in {401, 500}}
    \cup {[kind |-> "http", status_code |-> 200, body |-> b, content |-> ""] :
            b \in {"not_json", "unexpected_json"}}
    \cup {[kind |-> "http", status_code |-> 200, body |-> "chat_completion", content |-> c] :
            c \in Contents}

BundleKeys == {"demand_insights", "price_insights", "route_insights", "recommendations", "summary"}

\* the bundle ContentBundle spells out
LLMBundle ==
    [demand_insights |-> <<Sentence("Demand peaks on weekends", <<>>)>>,
     price_insights  |-> <<Sentence("Prices are stable", <<>>)>>,
     route_insights  |-> <<Sentence("SYD-MEL leads", <<>>)>>,
     recommendations |-> <<Sentence("Book early", <<>>)>>,
     summary         |-> "Healthy market"]

\* json.loads(content): the parsed value, or json.JSONDecodeError
json_loads(content) ==
    IF content = ContentBundle THEN Returned(LLMBundle)
    ELSE IF content = ContentOtherJson THEN Returned([error |-> "rate limited"])
    ELSE Raised("JSONDecodeError")

----------------------------------------------------------------------------
(* OpenAIAnalyzer                                                          *)

\* OpenAIAnalyzer.__init__: self.api_key = api_key or os.getenv('OPENAI_API_KEY')
OpenAIAnalyzer_init(arg, env) == PyOr(arg, env)

\* value_counts().head(5): the (at most) five most frequent values with their counts
ValueCountsHead5(values) ==
    LET count(a) == Cardinality({i \in 1..Len(values) : values[i] = a})
        all == Range(values)
        k == IF Cardinality(all) < 5 THEN Cardinality(all) ELSE 5
        top == CHOOSE T \in SUBSET all :
                 /\ Cardinality(T) = k
                 /\ \A a \in T : \A b \in all \ T : count(a) >= count(b)
    IN  [a \in top |-> count(a)]

\* OpenAIAnalyzer._prepare_data_summary.  The summary is built from a DataFrame
\* and serialised with json.dumps, which raises TypeError on a numpy.int64 (the
\* min/max of a price column without NaN) and on a dict with tuple keys (a
\* non-empty groupby(['origin', 'destination']).size().to_dict()).
_prepare_data_summary(data) ==
    IF data = <<>> THEN Returned("No flight data available")
    ELSE
    LET cols == Columns(data)
        prices == ColumnValues(data, "price")
        dates == ColumnValues(data, "date")
        routed == {i \in 1..Len(data) : {"origin", "destination"} \subseteq DOMAIN data[i]}
        demand == IF "demand_indicator" \in cols
                  THEN ColumnValues(data, "demand_indicator") ELSE <<>>
    IN  \* min()/max() of an object column mixing date strings and NaN
        IF "date" \in cols /\ NullCount(data, "date") > 0 THEN Raised("TypeError")
        \* df.groupby(['origin', 'destination']) without a destination column
        ELSE IF "origin" \in cols /\ "destination" \notin cols THEN Raised("KeyError")
        \* json.dumps: price_stats.min is a numpy.int64
        ELSE IF "price" \in cols /\ NullCount(data, "price") = 0 THEN Raised("TypeError")
        \* json.dumps: top_routes has tuple keys
        ELSE IF "origin" \in cols /\ routed # {} THEN Raised("TypeError")
        ELSE Returned(
            [total_flights |-> Len(data),
             date_range |-> IF "date" \in cols THEN <<SeqMin(dates), SeqMax(dates)>> ELSE <<>>,
             price_stats |->
                [average |-> IF "price" \in cols
                             THEN RoundHalfEven(100 * SumSeq(prices), Len(prices)) ELSE 0,
                 min |-> IF "price" \in cols THEN SeqMin(prices) ELSE 0,
                 max |-> IF "price" \in cols THEN SeqMax(prices) ELSE 0],
             top_routes |-> <<>>,
             airlines |-> IF "airline" \in cols
                          THEN ValueCountsHead5(ColumnValues(data, "airline")) ELSE <<>>,
             demand_avg |-> IF "demand_indicator" \in cols
                            THEN RoundHalfEven(100 * SumSeq(demand), Len(demand)) ELSE 0])

\* a generator that words its summary after the credential it finds
_generate_mock_insights_KeyAware(data) ==
    [demand_insights |-> <<Sentence("Analyzed {} flights across multiple routes", <<Len(data)>>)>>,
     price_insights  |-> <<>>,
     route_insights  |-> <<>>,
     recommendations |-> <<>>,
     summary         |-> IF Truthy(api_key)
                         THEN "Live analysis unavailable"
                         ELSE "Market shows healthy demand with price stability across major routes"]

\* OpenAIAnalyzer._generate_mock_insights.  avg_price and the price range are
\* formatted with '.0f'; price_stats of a missing price column are 0 and the
\* range sentence is the fixed "Price data unavailable".
_generate_mock_insights(data) ==
    IF data = <<>> THEN
        [demand_insights |-> <<Sentence("No flight data available for analysis", <<>>)>>,
         price_insights  |-> <<>>,
         route_insights  |-> <<>>,
         recommendations |-> <<>>,
         summary         |-> "Insufficient data for analysis"]
    ELSE
    LET has_price == "price" \in Columns(data)
        prices == ColumnValues(data, "price")
        avg_price == IF has_price THEN RoundHalfEven(SumSeq(prices), Len(prices)) ELSE 0
    IN  [demand_insights |->
            <<Sentence("Analyzed {} flights across multiple routes", <<Len(data)>>),
              Sentence("Average flight price is ${:.0f} AUD", <<avg_price>>),
              Sentence("Weekend flights show higher demand patterns", <<>>),
              Sentence("Morning flights (6-9 AM) are most popular for business routes", <<>>)>>,
         price_insights |->
            <<IF has_price
              THEN Sentence("Price range varies from ${:.0f} to ${:.0f}",
                            <<SeqMin(prices), SeqMax(prices)>>)
              ELSE Sentence("Price data unavailable", <<>>),
              Sentence("International flights average 60% higher than domestic", <<>>),
              Sentence("Booking 3-4 weeks in advance offers best value", <<>>)>>,
         route_insights |->
            <<Sentence("Sydney-Melbourne remains the busiest route", <<>>),
              Sentence("International routes to Asia show strong demand", <<>>),
              Sentence("Regional routes have limited but stable demand", <<>>)>>,
         recommendations |->
            <<Sentence("Book domestic flights 2-3 weeks in advance", <<>>),
              Sentence("Consider Tuesday/Wednesday departures for lower prices", <<>>),
              Sentence("Morning flights offer better on-time performance", <<>>)>>,
         summary |-> "Market shows healthy demand with price stability across major routes"]

\* a not-JSON bundle whose summary is empty as well
TextInsights_EmptySummary(content) ==
    [demand_insights |-> <<Sentence(content, <<>>)>>,
     price_insights  |-> <<>>,
     route_insights  |-> <<>>,
     recommendations |-> <<>>,
     summary         |-> ""]

\* the bundle returned when the message content is not JSON (lines 78-84)
TextInsights(content) ==
    [demand_insights |-> <<Sentence(content, <<>>)>>,
     price_insights  |-> <<>>,
     route_insights  |-> <<>>,
     recommendations |-> <<>>,
     summary         |-> "AI analysis completed"]

\* HandleResponse with the non-200 branch answering like the not-JSON branch
\* instead of calling the mock
HandleResponse_NoFallback(data, resp) ==
    IF resp.kind = "transport_error" THEN _generate_mock_insights(data)
    ELSE IF resp.status_code = 200 THEN
        IF resp.body = "not_json" THEN _generate_mock_insights(data)
        ELSE IF resp.body = "unexpected_json" THEN _generate_mock_insights(data)
        ELSE LET parsed == json_loads(resp.content)
             IN  IF parsed.raised THEN TextInsights(resp.content) ELSE parsed.value
    ELSE TextInsights("OpenAI API error")

\* The try block of analyze_flight_trends (lines 53-91), given what requests.post
\* produced: every exception raised inside it is caught and answered by the mock.
HandleResponse(data, resp) ==
    IF resp.kind = "transport_error" THEN _generate_mock_insights(data)
    ELSE IF resp.status_code = 200 THEN
        IF resp.body = "not_json" THEN _generate_mock_insights(data)          \* response.json() raises
        ELSE IF resp.body = "unexpected_json" THEN _generate_mock_insights(data) \* result['choices'] raises
        ELSE LET parsed == json_loads(resp.content)
             IN  IF parsed.raised THEN TextInsights(resp.content) ELSE parsed.value
    ELSE _generate_mock_insights(data)

\* analyze_flight_trends without the `if not self.api_key` early return
analyze_flight_trends_NoKeyCheck(key, data, resp) ==
    LET data_summary == _prepare_data_summary(data)
    IN  IF data_summary.raised
        THEN [posted |-> FALSE, result |-> Raised(data_summary.exc)]
        ELSE [posted |-> TRUE, result |-> Returned(HandleResponse(data, resp))]

\* OpenAIAnalyzer.analyze_flight_trends with self.api_key = key, when the endpoint
\* would answer resp.  posted tells whether requests.post was called.
analyze_flight_trends(key, data, resp) ==
    IF ~Truthy(key)
    THEN [posted |-> FALSE, result |-> Returned(_generate_mock_insights(data))]
    ELSE LET data_summary == _prepare_data_summary(data)
         IN  IF data_summary.raised
             THEN [posted |-> FALSE, result |-> Raised(data_summary.exc)]
             ELSE [posted |-> TRUE, result |-> Returned(HandleResponse(data, resp))]

----------------------------------------------------------------------------
(* AirlineDataProcessor (src/app.py)                                       *)

\* the city list of generate_sample_data: the first ten are the domestic ones
cities ==
    <<"Sydney", "Melbourne", "Brisbane", "Perth", "Adelaide",
      "Gold Coast", "Cairns", "Darwin", "Hobart", "Canberra",
      "Singapore", "Kuala Lumpur", "Bangkok", "Tokyo", "Seoul",
      "Los Angeles", "London", "Dubai", "Hong Kong", "Bali">>

DomesticCount == 10

\* destination in cities[:10]
IsDomestic(city) == \E i \in 1..DomesticCount : cities[i] = city
TopN == 10

\* some record lacks one of the keys: the subscript flight[key] raises KeyError
MissingKey(data, keys) == \E i \in 1..Len(data) : ~(keys \subseteq DOMAIN data[i])

\* the distinct members of a sequence in the order they first occur: the key
\* order of a dict (defaultdict) filled while iterating the sequence
RECURSIVE FirstSeen(_)
FirstSeen(s) ==
    IF s = <<>> THEN <<>>
    ELSE LET n == Len(s)
             prev == FirstSeen(SubSeq(s, 1, n - 1))
         IN  IF s[n] \in Range(prev) THEN prev ELSE Append(prev, s[n])

\* f"{flight['origin']} -> {flight['destination']}"
RouteKey(flight) == <<flight.origin, flight.destination>>

\* sorted(rows, key=lambda x: x['avg_demand'], reverse=True): descending, rows of
\* equal avg_demand keeping their order (Python's sort is stable, also reversed)
\* a descending sort that puts a row before the rows of equal avg_demand
RECURSIVE SortedByAvgDemandDesc_TiesReversed(_)
SortedByAvgDemandDesc_TiesReversed(rows) ==
    IF Len(rows) <= 1 THEN rows
    ELSE LET n == Len(rows)
             x == rows[n]
             sorted == SortedByAvgDemandDesc_TiesReversed(SubSeq(rows, 1, n - 1))
             p == Cardinality({i \in 1..(n - 1) : sorted[i].avg_demand > x.avg_demand})
         IN  SubSeq(sorted, 1, p) \o <<x>> \o SubSeq(sorted, p + 1, n - 1)

RECURSIVE SortedByAvgDemandDesc(_)
SortedByAvgDemandDesc(rows) ==
    IF Len(rows) <= 1 THEN rows
    ELSE LET n == Len(rows)
             x == rows[n]
             sorted == SortedByAvgDemandDesc(SubSeq(rows, 1, n - 1))
             p == Cardinality({i \in 1..(n - 1) : sorted[i].avg_demand >= x.avg_demand})
         IN  SubSeq(sorted, 1, p) \o <<x>> \o SubSeq(sorted, p + 1, n - 1)

\* rows[:k] with the slice forgotten
FirstN_NoCut(rows, k) == rows

\* rows[:k]
FirstN(rows, k) == SubSeq(rows, 1, IF Len(rows) < k THEN Len(rows) ELSE k)

\* AirlineDataProcessor.analyze_popular_routes.  avg_demand is round(avg, 1),
\* held in tenths.
analyze_popular_routes(data) ==
    IF MissingKey(data, {"origin", "destination", "demand_score"}) THEN Raised("KeyError")
    ELSE
    LET route_keys == FirstSeen([i \in 1..Len(data) |-> RouteKey(data[i])])
        demands(route) ==
            LET flights == SelectSeq(data, LAMBDA f : RouteKey(f) = route)
            IN  [i \in 1..Len(flights) |-> flights[i].demand_score]
        popular_routes ==
            [i \in 1..Len(route_keys) |->
                [route |-> route_keys[i],
                 avg_demand |-> RoundHalfEven(10 * SumSeq(demands(route_keys[i])),
                                              Len(demands(route_keys[i]))),
                 flight_count |-> Len(demands(route_keys[i]))]]
    IN  Returned(FirstN(SortedByAvgDemandDesc(popular_routes), TopN))

\* analyze_price_trends dividing each sum by len(data) instead of the partition's length
analyze_price_trends_DivideByAll(data) ==
    IF MissingKey(data, {"is_domestic", "price"}) THEN Raised("KeyError")
    ELSE
    LET domestic == SelectSeq(data, LAMBDA f : f.is_domestic)
        international == SelectSeq(data, LAMBDA f : ~f.is_domestic)
        domestic_prices == [i \in 1..Len(domestic) |-> domestic[i].price]
        international_prices == [i \in 1..Len(international) |-> international[i].price]
    IN  Returned(
          [domestic_avg |->
              IF domestic_prices # <<>>
              THEN RoundHalfEven(100 * SumSeq(domestic_prices), Len(data)) ELSE 0,
           international_avg |->
              IF international_prices # <<>>
              THEN RoundHalfEven(100 * SumSeq(international_prices), Len(data)) ELSE 0,
           domestic_range |->
              IF domestic_prices # <<>>
              THEN <<SeqMin(domestic_prices), SeqMax(domestic_prices)>> ELSE <<>>,
           international_range |->
              IF international_prices # <<>>
              THEN <<SeqMin(international_prices), SeqMax(international_prices)>> ELSE <<>>])

\* analyze_price_trends truncating the averages (int(avg * 100) / 100) instead of
\* rounding them
analyze_price_trends_Truncated(data) ==
    IF MissingKey(data, {"is_domestic", "price"}) THEN Raised("KeyError")
    ELSE
    LET domestic == SelectSeq(data, LAMBDA f : f.is_domestic)
        international == SelectSeq(data, LAMBDA f : ~f.is_domestic)
        domestic_prices == [i \in 1..Len(domestic) |-> domestic[i].price]
        international_prices == [i \in 1..Len(international) |-> international[i].price]
    IN  Returned(
          [domestic_avg |->
              IF domestic_prices # <<>>
              THEN (100 * SumSeq(domestic_prices)) \div Len(domestic_prices) ELSE 0,
           international_avg |->
              IF international_prices # <<>>
              THEN (100 * SumSeq(international_prices)) \div Len(international_prices) ELSE 0,
           domestic_range |->
              IF domestic_prices # <<>>
              THEN <<SeqMin(domestic_prices), SeqMax(domestic_prices)>> ELSE <<>>,
           international_range |->
              IF international_prices # <<>>
              THEN <<SeqMin(international_prices), SeqMax(international_prices)>> ELSE <<>>])

\* AirlineDataProcessor.analyze_price_trends.  The averages are round(avg, 2),
\* held in hundredths; a range is <<min, max>>, and <<>> stands for "N/A".
analyze_price_trends(data) ==
    IF MissingKey(data, {"is_domestic", "price"}) THEN Raised("KeyError")
    ELSE
    LET domestic == SelectSeq(data, LAMBDA f : f.is_domestic)
        international == SelectSeq(data, LAMBDA f : ~f.is_domestic)
        domestic_prices == [i \in 1..Len(domestic) |-> domestic[i].price]
        international_prices == [i \in 1..Len(international) |-> international[i].price]
    IN  Returned(
          [domestic_avg |->
              IF domestic_prices # <<>>
              THEN RoundHalfEven(100 * SumSeq(domestic_prices), Len(domestic_prices))
              ELSE 0,
           international_avg |->
              IF international_prices # <<>>
              THEN RoundHalfEven(100 * SumSeq(international_prices), Len(international_prices))
              ELSE 0,
           domestic_range |->
              IF domestic_prices # <<>>
              THEN <<SeqMin(domestic_prices), SeqMax(domestic_prices)>> ELSE <<>>,
           international_range |->
              IF international_prices # <<>>
              THEN <<SeqMin(international_prices), SeqMax(international_prices)>> ELSE <<>>])

\* datetime.strptime(date, '%Y-%m-%d').strftime('%A'), as the index of the day
\* name: 0 is Monday, 6 is Sunday
Weekday(date) == date % 7

\* a comparison that takes the lower mean for the higher one
DomesticHigher_Reversed(dom_scores, intl_scores) ==
    SumSeq(dom_scores) * Len(intl_scores) < SumSeq(intl_scores) * Len(dom_scores)

\* dom_avg_demand > intl_avg_demand (line 137), both lists being non-empty
DomesticHigher(dom_scores, intl_scores) ==
    SumSeq(dom_scores) * Len(intl_scores) > SumSeq(intl_scores) * Len(dom_scores)

\* AirlineDataProcessor.get_demand_insights.  The means are formatted with '.1f',
\* held in tenths; the peak day is the first key of avg_demand_by_day no other
\* key's mean exceeds (max(d, key=d.get)), and max() of an empty dict raises
\* ValueError.
get_demand_insights(data) ==
    IF MissingKey(data, {"date", "demand_score"}) THEN Raised("KeyError")
    ELSE IF data = <<>> THEN Raised("ValueError")
    ELSE IF MissingKey(data, {"is_domestic"}) THEN Raised("KeyError")
    ELSE
    LET days == FirstSeen([i \in 1..Len(data) |-> Weekday(data[i].date)])
        scores(flights) == [i \in 1..Len(flights) |-> flights[i].demand_score]
        on(day) == scores(SelectSeq(data, LAMBDA f : Weekday(f.date) = day))
        \* sum(a)/len(a) > sum(b)/len(b)
        MeanGreater(a, b) == SumSeq(a) * Len(b) > SumSeq(b) * Len(a)
        peak == CHOOSE i \in 1..Len(days) :
                    /\ \A j \in 1..Len(days) : ~MeanGreater(on(days[j]), on(days[i]))
                    /\ \A j \in 1..(i - 1) : MeanGreater(on(days[i]), on(days[j]))
        peak_day == days[peak]
        domestic_flights == scores(SelectSeq(data, LAMBDA f : f.is_domestic))
        international_flights == scores(SelectSeq(data, LAMBDA f : ~f.is_domestic))
        dom_avg_demand == RoundHalfEven(10 * SumSeq(domestic_flights), Len(domestic_flights))
        intl_avg_demand ==
            RoundHalfEven(10 * SumSeq(international_flights), Len(international_flights))
        insights ==
            <<Sentence("Peak demand occurs on {}s with an average demand score of {:.1f}",
                       <<peak_day, RoundHalfEven(10 * SumSeq(on(peak_day)), Len(on(peak_day)))>>)>>
    IN  Returned(
          IF domestic_flights # <<>> /\ international_flights # <<>>
          THEN IF DomesticHigher(domestic_flights, international_flights)
               THEN Append(insights,
                      Sentence("Domestic routes show higher demand ({:.1f}) compared to international routes ({:.1f})",
                               <<dom_avg_demand, intl_avg_demand>>))
               ELSE Append(insights,
                      Sentence("International routes show higher demand ({:.1f}) compared to domestic routes ({:.1f})",
                               <<intl_avg_demand, dom_avg_demand>>))
          ELSE insights)

\* a destination that is the first draw, whatever the origin
Destination_FirstDraw(origin, dest_draws) == dest_draws[1]

\* the loop of lines 42-44: draw again while the destination is the origin
RECURSIVE Destination(_, _)
Destination(origin, dest_draws) ==
    IF dest_draws[1] = origin
    THEN Destination(origin, Tail(dest_draws))
    ELSE dest_draws[1]

\* a price premium that rounds to the nearest integer
WeekendPrice_Rounded(base_price, flight_date) ==
    IF Weekday(flight_date) >= 5 THEN (12 * base_price + 5) \div 10 ELSE base_price

\* int(base_price * weekend_multiplier), lines 54-59: int() drops the fraction
\* of base_price * 1.2, which is the floor of 6 * base_price / 5 for every
\* base price of the two ranges
WeekendPrice(base_price, flight_date) ==
    IF Weekday(flight_date) >= 5 THEN (6 * base_price) \div 5 ELSE base_price

\* one iteration of the loop of lines 40-66; draw holds what random delivers
GeneratedRecord(today, draw) ==
    LET origin == draw.origin
        destination == Destination(origin, draw.dest_draws)
        is_domestic == IsDomestic(destination)
        base_price == IF is_domestic THEN draw.randint_150_400 ELSE draw.randint_800_2500
        flight_date == today + draw.date_offset
    IN  [origin       |-> origin,
         destination  |-> destination,
         price        |-> WeekendPrice(base_price, flight_date),
         date         |-> flight_date,
         demand_score |-> draw.demand_score,
         availability |-> draw.availability,
         is_domestic  |-> is_domestic,
         airline      |-> draw.airline]

\* generate_sample_data(): one record per loop iteration
generate_sample_data(r) == [i \in 1..Len(r.draws) |-> GeneratedRecord(r.today, r.draws[i])]

----------------------------------------------------------------------------
(* MarketDataAggregator (src/Api_Integration.py)                           *)

\* a float held exactly, as a fraction; den = 0 is NaN
Fraction(num, den) == [num |-> num, den |-> den]

RECURSIVE SortedAsc(_)
SortedAsc(s) ==
    IF Len(s) <= 1 THEN s
    ELSE LET n == Len(s)
             sorted == SortedAsc(SubSeq(s, 1, n - 1))
             p == Cardinality({i \in 1..(n - 1) : sorted[i] <= s[n]})
         IN  SubSeq(sorted, 1, p) \o <<s[n]>> \o SubSeq(sorted, p + 1, n - 1)

\* Series.quantile(pct / 100), linear interpolation between the two nearest ranks
Quantile(values, pct) ==
    LET sorted == SortedAsc(values)
        n == Len(sorted)
        lo == ((n - 1) * pct) \div 100
        frac == ((n - 1) * pct) % 100
        hi == IF lo + 1 < n THEN lo + 1 ELSE lo
    IN  Fraction(100 * sorted[lo + 1] + (sorted[hi + 1] - sorted[lo + 1]) * frac, 100)

\* the city names in the order str compares them
SortedCities ==
    <<"Adelaide", "Bali", "Bangkok", "Brisbane", "Cairns",
      "Canberra", "Darwin", "Dubai", "Gold Coast", "Hobart",
      "Hong Kong", "Kuala Lumpur", "London", "Los Angeles", "Melbourne",
      "Perth", "Seoul", "Singapore", "Sydney", "Tokyo">>

CityRank(name) == CHOOSE i \in 1..Len(SortedCities) : SortedCities[i] = name

\* (origin, destination) tuples compared as Python compares them
RouteLess(a, b) ==
    \/ CityRank(a[1]) < CityRank(b[1])
    \/ a[1] = b[1] /\ CityRank(a[2]) < CityRank(b[2])

\* an empty dict
EmptyDict == <<>>

\* df.groupby(['origin', 'destination']).size().head(5).to_dict() of line 109:
\* groupby drops the rows with a NaN key and orders the groups by key, size()
\* counts each group's rows, head(5) keeps the first five groups of that order
top_routes(data) ==
    LET routed == SelectSeq(data, LAMBDA f : {"origin", "destination"} \subseteq DOMAIN f)
        groups == {RouteKey(routed[i]) : i \in 1..Len(routed)}
        size(route) == Cardinality({i \in 1..Len(routed) : RouteKey(routed[i]) = route})
        head == {route \in groups : Cardinality({other \in groups : RouteLess(other, route)}) < 5}
    IN  [route \in head |-> size(route)]

\* MarketDataAggregator._calculate_market_stats.  std holds the square of the
\* sample standard deviation (pandas' ddof = 1: NaN for a single price).  groupby
\* drops the rows whose origin or destination is NaN and sorts the group keys;
\* idxmax is the first key of the largest group and raises on no group at all.
_calculate_market_stats(data) ==
    IF data = <<>> THEN Returned(EmptyDict)
    ELSE
    LET cols == Columns(data)
        has_price == "price" \in cols
        prices == ColumnValues(data, "price")
        n == Len(prices)
        sorted == SortedAsc(prices)
        squares == [i \in 1..n |-> prices[i] * prices[i]]
        dates == ColumnValues(data, "date")
        routed == SelectSeq(data, LAMBDA f : {"origin", "destination"} \subseteq DOMAIN f)
        keys == {RouteKey(routed[i]) : i \in 1..Len(routed)}
        size(k) == Cardinality({i \in 1..Len(routed) : RouteKey(routed[i]) = k})
        largest == {k \in keys : \A k2 \in keys : size(k2) <= size(k)}
    IN  IF "origin" \in cols /\ "destination" \notin cols THEN Raised("KeyError")
        ELSE IF "origin" \in cols /\ keys = {} THEN Raised("ValueError")
        ELSE Returned(
          [price_distribution |->
              [mean |-> IF has_price THEN Fraction(SumSeq(prices), n) ELSE Fraction(0, 1),
               median |-> IF has_price
                          THEN Fraction(sorted[(n + 1) \div 2] + sorted[(n + 2) \div 2], 2)
                          ELSE Fraction(0, 1),
               std |-> IF has_price
                       THEN Fraction(n * SumSeq(squares) - SumSeq(prices) * SumSeq(prices),
                                     n * (n - 1))
                       ELSE Fraction(0, 1),
               percentiles |->
                  [p25 |-> IF has_price THEN Quantile(prices, 25) ELSE Fraction(0, 1),
                   p75 |-> IF has_price THEN Quantile(prices, 75) ELSE Fraction(0, 1),
                   p90 |-> IF has_price THEN Quantile(prices, 90) ELSE Fraction(0, 1)]],
           route_analysis |->
              [total_routes |-> IF "origin" \in cols THEN Cardinality(keys) ELSE 0,
               most_frequent |->
                  IF "origin" \in cols
                  THEN CHOOSE k \in largest : \A k2 \in largest : k2 = k \/ RouteLess(k, k2)
                  ELSE <<>>],
           temporal_patterns |->
              [data_span_days |-> IF "date" \in cols THEN SeqMax(dates) - SeqMin(dates) ELSE 0]])

\* required_fields with 'price' left out
required_fields_NoPrice == <<"origin", "destination", "date">>

required_fields == <<"origin", "destination", "price", "date">>

\* max(0, x) with the floor forgotten
Max0_NoFloor(x) == x

\* max(0, x)
Max0(x) == IF x > 0 THEN x ELSE 0
Min20(x) == IF x < 20 THEN x ELSE 20

Issue(text, fields, nulls) == [text |-> text, fields |-> fields, nulls |-> nulls]

\* MarketDataAggregator._assess_data_quality.  completeness is held as the
\* fraction 100 * (cells - nulls) / cells.
_assess_data_quality(data) ==
    IF data = <<>>
    THEN Returned([quality_score |-> 0,
                   issues |-> <<Issue("No data available", <<>>, EmptyDict)>>])
    ELSE
    LET cols == Columns(data)
        missing_fields == SelectSeq(required_fields, LAMBDA field : field \notin cols)
        quality_score == Max0(100 - Len(missing_fields) * 25)
        null_total == TotalNulls(data)
        null_counts == [c \in {c \in cols : NullCount(data, c) > 0} |-> NullCount(data, c)]
        missing_issue ==
            IF missing_fields # <<>>
            THEN <<Issue("Missing required fields: {}", missing_fields, EmptyDict)>>
            ELSE <<>>
        null_issue ==
            IF null_total > 0
            THEN <<Issue("Null values found in: {}", <<>>, null_counts)>>
            ELSE <<>>
        issues == missing_issue \o null_issue
        final_score == IF null_total > 0 THEN quality_score - Min20(null_total)
                       ELSE quality_score
        cells == Len(data) * Cardinality(cols)
    IN  Returned(
          [quality_score |-> Max0(final_score),
           issues |-> IF issues # <<>> THEN issues
                      ELSE <<Issue("No major issues detected", <<>>, EmptyDict)>>,
           completeness |-> Fraction(100 * (cells - null_total), cells)])

----------------------------------------------------------------------------
(* Request handlers (src/app.py)                                           *)

\* the fields of data_processor
ProcessorFields == <<routes_data, price_trends, demand_patterns>>

\* no library call inside a handler's try block raises
NoFault == ""

\* what a library call inside a try block (plotly, json, jsonify) may raise
Faults == {NoFault, "MemoryError"}

\* request.args.get('date_from', ''): the parameter is absent
NoDate == 0

\* the [:15] of line 199
ChartTopN == 15

\* str.lower() of the city names and of the query strings the model uses
Lower(s) ==
    LET lowered == <<"sydney", "melbourne", "brisbane", "perth", "adelaide",
                     "gold coast", "cairns", "darwin", "hobart", "canberra",
                     "singapore", "kuala lumpur", "bangkok", "tokyo", "seoul",
                     "los angeles", "london", "dubai", "hong kong", "bali">>
    IN  IF \E k \in 1..Len(cities) : cities[k] = s
        THEN lowered[CHOOSE k \in 1..Len(cities) : cities[k] = s]
        ELSE IF s = "SYDNEY" THEN "sydney"
        ELSE s

\* a handler that writes the generated records to data_processor
RequestEffect_Cached(raw_data) ==
    /\ routes_data' = raw_data
    /\ UNCHANGED <<price_trends, demand_patterns>>

\* what a handler writes to data_processor: generate_sample_data builds the
\* local list routes and the handlers keep raw_data in a local; no field of
\* data_processor is assigned
RequestEffect(raw_data) == UNCHANGED ProcessorFields

\* return jsonify(body): status 200
Ok(handler, body) == [handler |-> handler, status |-> 200, body |-> body]

\* the except branch of get_data and filter_data (lines 175-179, 301-305)
FailureWithSuccess(handler, exc) ==
    [handler |-> handler, status |-> 500, body |-> [success |-> FALSE, error |-> exc]]

\* the except branch of demand_chart and price_chart (lines 220-221, 253-254)
FailureErrorOnly(handler, exc) ==
    [handler |-> handler, status |-> 500, body |-> [error |-> exc]]

\* get_data, lines 152-179
get_data(raw_data, now, fault) ==
    LET popular_routes == analyze_popular_routes(raw_data)
        trends == analyze_price_trends(raw_data)
        demand_insights == get_demand_insights(raw_data)
    IN  IF fault # NoFault THEN FailureWithSuccess("get_data", fault)
        ELSE IF popular_routes.raised THEN FailureWithSuccess("get_data", popular_routes.exc)
        ELSE IF trends.raised THEN FailureWithSuccess("get_data", trends.exc)
        ELSE IF demand_insights.raised THEN FailureWithSuccess("get_data", demand_insights.exc)
        ELSE Ok("get_data",
                [success |-> TRUE,
                 data |-> [popular_routes  |-> popular_routes.value,
                           price_trends    |-> trends.value,
                           demand_insights |-> demand_insights.value,
                           total_flights   |-> Len(raw_data),
                           last_updated    |-> now]])

\* sorted(..., key=lambda x: x[1], reverse=True): stable, descending by the mean
RECURSIVE SortedByMeanDesc(_)
SortedByMeanDesc(pairs) ==
    IF Len(pairs) <= 1 THEN pairs
    ELSE LET n == Len(pairs)
             x == pairs[n]
             sorted == SortedByMeanDesc(SubSeq(pairs, 1, n - 1))
             p == Cardinality({i \in 1..(n - 1) :
                      sorted[i].mean.num * x.mean.den >= x.mean.num * sorted[i].mean.den})
         IN  SubSeq(sorted, 1, p) \o <<x>> \o SubSeq(sorted, p + 1, n - 1)

\* demand_chart, lines 181-221; the generated records have every key
demand_chart(raw_data, fault) ==
    LET dests == FirstSeen([i \in 1..Len(raw_data) |-> raw_data[i].destination])
        demands(dest) ==
            LET flights == SelectSeq(raw_data, LAMBDA f : f.destination = dest)
            IN  [i \in 1..Len(flights) |-> flights[i].demand_score]
        pairs == [i \in 1..Len(dests) |->
                    [dest |-> dests[i],
                     mean |-> Fraction(SumSeq(demands(dests[i])), Len(demands(dests[i])))]]
        sorted_data == FirstN(SortedByMeanDesc(pairs), ChartTopN)
    IN  IF fault # NoFault THEN FailureErrorOnly("demand_chart", fault)
        ELSE IF sorted_data = <<>> THEN FailureErrorOnly("demand_chart", "ValueError")
        ELSE Ok("demand_chart",
                [chart |->
                    [x    |-> [i \in 1..Len(sorted_data) |-> sorted_data[i].dest],
                     y    |-> [i \in 1..Len(sorted_data) |-> sorted_data[i].mean],
                     text |-> [i \in 1..Len(sorted_data) |->
                                 RoundHalfEven(10 * sorted_data[i].mean.num,
                                               sorted_data[i].mean.den)]]])

\* price_chart, lines 223-254
price_chart(raw_data, fault) ==
    LET dates == SortedAsc(FirstSeen([i \in 1..Len(raw_data) |-> raw_data[i].date]))
        prices(date) ==
            LET flights == SelectSeq(raw_data, LAMBDA f : f.date = date)
            IN  [i \in 1..Len(flights) |-> flights[i].price]
    IN  IF fault # NoFault THEN FailureErrorOnly("price_chart", fault)
        ELSE Ok("price_chart",
                [chart |->
                    [x |-> dates,
                     y |-> [i \in 1..Len(dates) |->
                              Fraction(SumSeq(prices(dates[i])), Len(prices(dates[i])))]]])

\* filter_data, lines 256-305; dates 'YYYY-MM-DD' compare as their day ordinals
filter_data(raw_data, origin, destination, date_from, date_to, fault) ==
    LET by_origin ==
            IF origin # ""
            THEN SelectSeq(raw_data, LAMBDA f : Lower(f.origin) = Lower(origin))
            ELSE raw_data
        by_destination ==
            IF destination # ""
            THEN SelectSeq(by_origin, LAMBDA f : Lower(f.destination) = Lower(destination))
            ELSE by_origin
        from_date ==
            IF date_from # NoDate
            THEN SelectSeq(by_destination, LAMBDA f : f.date >= date_from)
            ELSE by_destination
        filtered_data ==
            IF date_to # NoDate
            THEN SelectSeq(from_date, LAMBDA f : f.date <= date_to)
            ELSE from_date
        popular_routes == analyze_popular_routes(filtered_data)
        trends == analyze_price_trends(filtered_data)
    IN  IF fault # NoFault THEN FailureWithSuccess("filter_data", fault)
        ELSE IF popular_routes.raised THEN FailureWithSuccess("filter_data", popular_routes.exc)
        ELSE IF trends.raised THEN FailureWithSuccess("filter_data", trends.exc)
        ELSE Ok("filter_data",
                [success |-> TRUE,
                 data |-> [popular_routes  |-> popular_routes.value,
                           price_trends    |-> trends.value,
                           total_flights   |-> Len(filtered_data),
                           filters_applied |-> [origin      |-> origin,
                                                destination |-> destination,
                                                date_from   |-> date_from,
                                                date_to     |-> date_to]]])

----------------------------------------------------------------------------
(* The record lists the operations are called with.                        *)

\* destination in cities[:10]

\* a record as generate_sample_data builds it (lines 57-66)
Flight(origin, destination, price, date, demand_score, airline) ==
    [origin |-> origin, destination |-> destination, price |-> price, date |-> date,
     demand_score |-> demand_score, is_domestic |-> IsDomestic(destination),
     airline |-> airline]

\* the members of a sequence of records, taken k at a time (k <= n)
ListsUpTo(records, n) ==
    UNION {{[i \in 1..k |-> records[pick[i]]] : pick \in [1..k -> 1..Len(records)]} : k \in 0..n}

\* for the insight generator: complete records, and records lacking the price,
\* the route, or both
InsightFlights ==
    <<Flight("Sydney", "Melbourne", 299, 0, 80, "Qantas"),
      Flight("Sydney", "Tokyo", 1200, 5, 60, "Jetstar"),
      [origin |-> "Melbourne", destination |-> "Brisbane", date |-> 1, airline |-> "Qantas"],
      [price |-> 189, airline |-> "Qantas"],
      [airline |-> "Jetstar"]>>

\* for the price and demand aggregations: complete records, domestic and
\* international, on week days and weekend days
AggFlights ==
    <<Flight("Sydney", "Melbourne", 100, 0, 30, "Qantas"),
      Flight("Sydney", "Melbourne", 300, 5, 100, "Jetstar"),
      Flight("Melbourne", "Sydney", 101, 7, 100, "Qantas"),
      Flight("Perth", "Sydney", 100, 6, 65, "Virgin Australia"),
      Flight("Sydney", "Tokyo", 1000, 0, 100, "Qantas"),
      Flight("Sydney", "Tokyo", 2500, 5, 30, "Singapore Airlines"),
      Flight("Perth", "Singapore", 1001, 12, 65, "Singapore Airlines"),
      Flight("Brisbane", "London", 1000, 2, 31, "Qantas")>>

\* for the data-quality assessment: a complete record and records lacking
\* required fields
QualityFlights ==
    <<Flight("Sydney", "Melbourne", 299, 0, 80, "Qantas"),
      [origin |-> "Melbourne", destination |-> "Brisbane", date |-> 1, airline |-> "Qantas"],
      [airline |-> "Jetstar"],
      [demand_score |-> 55]>>

\* for the popular-routes ranking: the k-th record flies either a route of its
\* own (Sydney to the (k+1)-th city) or Sydney -> Melbourne again
RouteFlight(k, own) ==
    IF own
    THEN Flight("Sydney", cities[k + 1], IF k < DomesticCount THEN 200 ELSE 900, k,
                40 + 10 * (k % 3), "Qantas")
    ELSE Flight("Sydney", "Melbourne", 250, k, 90, "Jetstar")

\* the odd positions always fly a route of their own
RouteLists(n) ==
    UNION {{[i \in 1..k |-> RouteFlight(i, pick[i])] :
              pick \in {f \in [1..k -> BOOLEAN] : \A i \in 1..k : i % 2 = 1 => f[i]}} :
           k \in 0..n}

Credentials == {None, "", "sk-test"}

\* what random.choice(cities) may deliver k times in a row before the loop ends:
\* the origin k times, then another city
RECURSIVE Redraws(_, _, _)
Redraws(origin, destination, k) ==
    IF k = 0 THEN <<destination>> ELSE <<origin>> \o Redraws(origin, destination, k - 1)

\* the random values one loop iteration of generate_sample_data consumes:
\* origins and destinations at both ends of the domestic slice, base prices
\* at the ends of their ranges and where 1.2 times the price has a fraction
SampleDraws ==
    { [origin          |-> origin,
       dest_draws      |-> Redraws(origin, destination, k),
       randint_150_400 |-> base[1],
       randint_800_2500 |-> base[2],
       date_offset     |-> date_offset,
       demand_score    |-> 30 + 35 * (date_offset - 1),
       availability    |-> 10,
       airline         |-> "Qantas"] :
        origin \in {cities[1], cities[DomesticCount]},
        destination \in {cities[2], cities[DomesticCount + 1]},
        k \in 0..MaxRedraws,
        base \in {<<153, 2499>>, <<400, 800>>},
        date_offset \in 1..3 }

\* the draws a request handler is followed with
HandlerDraws ==
    { d \in SampleDraws : /\ d.randint_150_400 = 153
                          /\ d.date_offset # 3
                          /\ Len(d.dest_draws) = 1
                          /\ (d.origin = cities[1]) = (d.date_offset = 1) }

\* datetime.now() on a Thursday: offsets 1..3 fall on Friday, Saturday, Sunday
Rng(records) == [today |-> 3, draws |-> records]

\* the sequences of exactly n draws
DrawLists(draws, n) == [1..n -> draws]

----------------------------------------------------------------------------
(* State machine.                                                          *)

NoOutcome == [op |-> "none", raised |-> FALSE, exc |-> "", value |-> <<>>]

\* _generate_mock_insights not called yet
NoMock == [called |-> FALSE, key |-> None, value |-> <<>>]

\* no request handled yet
NoHttpResponse == [handler |-> "none", status |-> 0, body |-> <<>>]

\* generate_sample_data is not called: nothing is drawn
NoDraws == [today |-> 0, draws |-> <<>>]

\* AirlineDataProcessor.__init__ (data_processor = AirlineDataProcessor())
AirlineDataProcessor_init ==
    /\ routes_data = <<>>
    /\ price_trends = EmptyDict
    /\ demand_patterns = EmptyDict

Ended(op, r) == [op |-> op, raised |-> r.raised, exc |-> r.exc, value |-> r.value]

\* the state once OpenAIAnalyzer(arg) is constructed with env in the environment
\* and the record list is at hand
Constructed(arg, env, data) ==
    /\ ctor_api_key = arg
    /\ env_api_key = env
    /\ api_key = OpenAIAnalyzer_init(arg, env)
    /\ flight_data = data
    /\ response = NoResponse
    /\ network_calls = 0
    /\ outcome = NoOutcome
    /\ first_mock = NoMock
    /\ AirlineDataProcessor_init
    /\ rng = NoDraws
    /\ http_response = NoHttpResponse

Init ==
    \E arg \in Credentials, env \in Credentials, data \in ListsUpTo(InsightFlights, MaxInsightLen) :
        Constructed(arg, env, data)

InitAgg == \E data \in ListsUpTo(AggFlights, MaxAggLen) : Constructed(None, None, data)

InitQuality == \E data \in ListsUpTo(QualityFlights, MaxQualityLen) : Constructed(None, None, data)

InitRoutes == \E data \in RouteLists(MaxRoutesLen) : Constructed(None, None, data)

\* a constructed program whose random source holds the given draws
Seeded(data, draws) ==
    /\ ctor_api_key = None
    /\ env_api_key = None
    /\ api_key = OpenAIAnalyzer_init(None, None)
    /\ flight_data = data
    /\ response = NoResponse
    /\ network_calls = 0
    /\ outcome = NoOutcome
    /\ first_mock = NoMock
    /\ AirlineDataProcessor_init
    /\ rng = Rng(draws)
    /\ http_response = NoHttpResponse

InitGen == \E draws \in DrawLists(SampleDraws, SampleCount) : Seeded(<<>>, draws)

\* analyzer.analyze_flight_trends(flight_data)
AnalyzeFlightTrends ==
    \E resp \in Responses :
        LET call == analyze_flight_trends(api_key, flight_data, resp)
        IN  /\ call.posted => network_calls < MaxCalls
            /\ outcome' = Ended("analyze_flight_trends", call.result)
            /\ response' = IF call.posted THEN resp ELSE NoResponse
            /\ network_calls' = IF call.posted THEN network_calls + 1 ELSE network_calls
            /\ UNCHANGED <<ctor_api_key, env_api_key, api_key, flight_data>>
            /\ UNCHANGED <<first_mock, ProcessorFields, rng, http_response>>

\* what an aggregation leaves alone: it reads the record list and writes nothing
Unread == <<ctor_api_key, env_api_key, api_key, flight_data, response, network_calls,
            first_mock, ProcessorFields, rng, http_response>>

\* data_processor.analyze_popular_routes(flight_data)
AnalyzePopularRoutes ==
    /\ outcome' = Ended("analyze_popular_routes", analyze_popular_routes(flight_data))
    /\ UNCHANGED Unread

\* data_processor.analyze_price_trends(flight_data)
AnalyzePriceTrends ==
    /\ outcome' = Ended("analyze_price_trends", analyze_price_trends(flight_data))
    /\ UNCHANGED Unread

\* data_processor.get_demand_insights(flight_data)
GetDemandInsights ==
    /\ outcome' = Ended("get_demand_insights", get_demand_insights(flight_data))
    /\ UNCHANGED Unread

\* aggregator._calculate_market_stats(flight_data)
CalculateMarketStats ==
    /\ outcome' = Ended("_calculate_market_stats", _calculate_market_stats(flight_data))
    /\ UNCHANGED Unread

\* aggregator._assess_data_quality(flight_data)
AssessDataQuality ==
    /\ outcome' = Ended("_assess_data_quality", _assess_data_quality(flight_data))
    /\ UNCHANGED Unread

Next ==
    \/ AnalyzeFlightTrends
    \/ AnalyzePopularRoutes
    \/ AnalyzePriceTrends
    \/ GetDemandInsights
    \/ CalculateMarketStats
    \/ AssessDataQuality

Spec == Init /\ [][Next]_vars

SpecAgg == InitAgg /\ [][Next]_vars

SpecQuality == InitQuality /\ [][Next]_vars

SpecRoutes == InitRoutes /\ [][Next]_vars

\* analyzer._generate_mock_insights(flight_data), called directly
GenerateMockInsights ==
    LET bundle == _generate_mock_insights(flight_data)
    IN  /\ outcome' = Ended("_generate_mock_insights", Returned(bundle))
        /\ first_mock' = IF first_mock.called
                         THEN first_mock
                         ELSE [called |-> TRUE, key |-> api_key, value |-> bundle]
        /\ UNCHANGED <<ctor_api_key, env_api_key, api_key, flight_data, response, network_calls>>
        /\ UNCHANGED <<ProcessorFields, rng, http_response>>

\* analyzer = OpenAIAnalyzer(arg): a new analyzer replaces the old one
ConstructAnalyzer ==
    \E arg \in Credentials :
        /\ ctor_api_key' = arg
        /\ api_key' = OpenAIAnalyzer_init(arg, env_api_key)
        /\ UNCHANGED <<env_api_key, flight_data, response, network_calls, outcome>>
        /\ UNCHANGED <<first_mock, ProcessorFields, rng, http_response>>

\* data_processor.generate_sample_data()
GenerateSampleData ==
    /\ outcome' = Ended("generate_sample_data", Returned(generate_sample_data(rng)))
    /\ UNCHANGED Unread

SpecGen == InitGen /\ [][GenerateSampleData]_vars

InitWeb ==
    \E data \in ListsUpTo(<<QualityFlights[1]>>, 1), draws \in DrawLists(HandlerDraws, SampleCount) :
        Seeded(data, draws)

\* what a request leaves alone apart from data_processor's fields
Unserved == <<ctor_api_key, env_api_key, api_key, flight_data, response, network_calls,
              outcome, first_mock, rng>>

\* GET /api/data
GetData ==
    \E fault \in Faults :
        LET raw_data == generate_sample_data(rng)
        IN  /\ http_response' = get_data(raw_data, rng.today, fault)
            /\ RequestEffect(raw_data)
            /\ UNCHANGED Unserved

\* GET /api/charts/demand
DemandChart ==
    \E fault \in Faults :
        LET raw_data == generate_sample_data(rng)
        IN  /\ http_response' = demand_chart(raw_data, fault)
            /\ RequestEffect(raw_data)
            /\ UNCHANGED Unserved

\* GET /api/charts/prices
PriceChart ==
    \E fault \in Faults :
        LET raw_data == generate_sample_data(rng)
        IN  /\ http_response' = price_chart(raw_data, fault)
            /\ RequestEffect(raw_data)
            /\ UNCHANGED Unserved

\* GET /filter?origin=..&destination=..&date_from=..&date_to=..
FilterData ==
    \E origin \in {"", "SYDNEY"}, destination \in {"", "melbourne"},
       date_from \in {NoDate, rng.today + 2}, date_to \in {NoDate, rng.today + 1},
       fault \in Faults :
        LET raw_data == generate_sample_data(rng)
        IN  /\ http_response' = filter_data(raw_data, origin, destination, date_from, date_to, fault)
            /\ RequestEffect(raw_data)
            /\ UNCHANGED Unserved

NextWeb ==
    \/ Next
    \/ GetData
    \/ DemandChart
    \/ PriceChart
    \/ FilterData

SpecWeb == InitWeb /\ [][NextWeb]_vars

\* analyzer._prepare_data_summary(flight_data), called directly
PrepareDataSummary ==
    /\ outcome' = Ended("_prepare_data_summary", _prepare_data_summary(flight_data))
    /\ UNCHANGED Unread

NextSummary ==
    \/ Next
    \/ PrepareDataSummary

SpecSummary == InitRoutes /\ [][NextSummary]_vars

NextMock ==
    \/ Next
    \/ GenerateMockInsights
    \/ ConstructAnalyzer

SpecMock == Init /\ [][NextMock]_vars

----------------------------------------------------------------------------
(* Properties.                                                             *)

AnalyzedTrends == outcome.op = "analyze_flight_trends"

\* the last outbound call ended in a non-200 status or a transport exception
CallFailed ==
    \/ response.kind = "transport_error"
    \/ response.kind = "http" /\ response.status_code # 200

\* C1: analyze_flight_trends never raises to its caller, whatever the record
\* list, the credential and the outcome of the outbound call.
C1_NeverRaises == AnalyzedTrends => ~outcome.raised

\* C2: every value analyze_flight_trends returns has exactly the five keys of the
\* insight bundle, on every path.
C2_FixedShape == (AnalyzedTrends /\ ~outcome.raised) => DOMAIN outcome.value = BundleKeys

\* C3: with a credential, when the outbound call returns a non-200 status or
\* fails with a transport exception, analyze_flight_trends returns a five-key
\* bundle equal to what _generate_mock_insights returns for the same records.
C3_FailedCallFallsBackToMock ==
    (AnalyzedTrends /\ Truthy(api_key) /\ CallFailed) =>
        /\ ~outcome.raised
        /\ DOMAIN outcome.value = BundleKeys
        /\ outcome.value = _generate_mock_insights(flight_data)

C3_Witness ==
    /\ AnalyzedTrends
    /\ Truthy(api_key)
    /\ response.kind = "http" /\ response.status_code = 500
    /\ flight_data # <<>>
    /\ ~outcome.raised
    /\ outcome.value.summary = "Market shows healthy demand with price stability across major routes"

\* C4: with no credential configured, neither as constructor argument nor in the
\* environment, no outbound call is ever made and every analyze_flight_trends
\* call returns, without raising, exactly the mock bundle of its records.
C4_NoCredentialTakesMockPath ==
    (~Truthy(ctor_api_key) /\ ~Truthy(env_api_key)) =>
        /\ network_calls = 0
        /\ response = NoResponse
        /\ AnalyzedTrends =>
            /\ ~outcome.raised
            /\ outcome.value = _generate_mock_insights(flight_data)

C4_Witness ==
    /\ ctor_api_key = None /\ env_api_key = None
    /\ AnalyzedTrends
    /\ Len(flight_data) = 2
    /\ "origin" \in DOMAIN flight_data[1]
    /\ outcome.value.demand_insights[1].args = <<2>>

\* the structure each aggregation documents for an empty record list
EmptyStructure(op) ==
    CASE op = "analyze_popular_routes" -> <<>>
      [] op = "analyze_price_trends" ->
            [domestic_avg |-> 0, international_avg |-> 0,
             domestic_range |-> <<>>, international_range |-> <<>>]
      [] op = "get_demand_insights" -> <<>>
      [] op = "_calculate_market_stats" -> EmptyDict
      [] op = "_assess_data_quality" ->
            [quality_score |-> 0, issues |-> <<Issue("No data available", <<>>, EmptyDict)>>]

AggregationOps ==
    {"analyze_popular_routes", "analyze_price_trends", "get_demand_insights",
     "_calculate_market_stats", "_assess_data_quality"}

\* C5: for an empty record list every aggregation function returns its
\* documented zero/empty structure and never raises.
C5_EmptyListNeverRaises ==
    (flight_data = <<>> /\ outcome.op \in AggregationOps) =>
        /\ ~outcome.raised
        /\ outcome.value = EmptyStructure(outcome.op)

\* the prices of the domestic (dom = TRUE) or international partition
PartitionPrices(dom) ==
    LET part == SelectSeq(flight_data, LAMBDA f : f.is_domestic = dom)
    IN  [i \in 1..Len(part) |-> part[i].price]

\* avg, in hundredths, lies within [min, max] of the prices
WithinRange(avg, prices) ==
    /\ \E p \in Range(prices) : 100 * p <= avg
    /\ \E p \in Range(prices) : avg <= 100 * p

PriceTrendsReturned == outcome.op = "analyze_price_trends" /\ ~outcome.raised

\* C6: for a non-empty record list, domestic_avg and international_avg each lie
\* within [min, max] of the prices of their partition.
C6_AveragesWithinPartitionRange ==
    (PriceTrendsReturned /\ flight_data # <<>>) =>
        /\ PartitionPrices(TRUE) # <<>> =>
              WithinRange(outcome.value.domestic_avg, PartitionPrices(TRUE))
        /\ PartitionPrices(FALSE) # <<>> =>
              WithinRange(outcome.value.international_avg, PartitionPrices(FALSE))

C6_Witness ==
    /\ PriceTrendsReturned
    /\ PartitionPrices(TRUE) = <<100, 300>>
    /\ PartitionPrices(FALSE) = <<2500>>
    /\ outcome.value.domestic_avg = 20000
    /\ outcome.value.international_avg = 250000

\* avg, in hundredths, is exactly the mean of the prices
ExactMean(avg, prices) == avg * Len(prices) = 100 * SumSeq(prices)

\* avg, in hundredths, is the mean of the prices rounded to two decimals: no
\* further than half a hundredth from it
RoundedMean(avg, prices) ==
    LET diff == avg * Len(prices) - 100 * SumSeq(prices)
    IN  2 * diff <= Len(prices) /\ -2 * diff <= Len(prices)

\* C7, as stated: analyze_price_trends returns for each partition the arithmetic
\* mean of that partition's prices, and 0 with range 'N/A' for an empty partition.
C7_ExactPartitionMean ==
    PriceTrendsReturned =>
        /\ IF PartitionPrices(TRUE) # <<>>
           THEN ExactMean(outcome.value.domestic_avg, PartitionPrices(TRUE))
           ELSE outcome.value.domestic_avg = 0 /\ outcome.value.domestic_range = <<>>
        /\ IF PartitionPrices(FALSE) # <<>>
           THEN ExactMean(outcome.value.international_avg, PartitionPrices(FALSE))
           ELSE outcome.value.international_avg = 0 /\ outcome.value.international_range = <<>>

\* C7, amended: analyze_price_trends returns for each partition the arithmetic
\* mean of that partition's prices rounded to two decimal places, and 0 with
\* range 'N/A' for an empty partition; prices 100 and 300 domestic and 1000
\* international give 200 and 1000.
C7_RoundedPartitionMean ==
    PriceTrendsReturned =>
        /\ IF PartitionPrices(TRUE) # <<>>
           THEN RoundedMean(outcome.value.domestic_avg, PartitionPrices(TRUE))
           ELSE outcome.value.domestic_avg = 0 /\ outcome.value.domestic_range = <<>>
        /\ IF PartitionPrices(FALSE) # <<>>
           THEN RoundedMean(outcome.value.international_avg, PartitionPrices(FALSE))
           ELSE outcome.value.international_avg = 0 /\ outcome.value.international_range = <<>>
        /\ (PartitionPrices(TRUE) = <<100, 300>> /\ PartitionPrices(FALSE) = <<1000>>) =>
              /\ outcome.value.domestic_avg = 20000
              /\ outcome.value.international_avg = 100000

C7_Witness ==
    /\ PriceTrendsReturned
    /\ Len(flight_data) = 3
    /\ PartitionPrices(TRUE) = <<100, 300>>
    /\ PartitionPrices(FALSE) = <<1000>>
    /\ outcome.value.domestic_avg = 20000
    /\ outcome.value.international_avg = 100000

QualityAssessed == outcome.op = "_assess_data_quality" /\ ~outcome.raised

\* C8: for every record list, empty, lacking required columns or holding null
\* cells, the quality_score of _assess_data_quality is in [0, 100].
C8_QualityScoreInRange ==
    (outcome.op = "_assess_data_quality") =>
        /\ ~outcome.raised
        /\ outcome.value.quality_score >= 0
        /\ outcome.value.quality_score <= 100

\* all four required columns are missing and there are null cells besides
C8_Witness ==
    /\ QualityAssessed
    /\ flight_data # <<>>
    /\ \A i \in 1..Len(required_fields) : required_fields[i] \notin Columns(flight_data)
    /\ TotalNulls(flight_data) > 0
    /\ outcome.value.quality_score = 0

NoRecordHasPrice == \A i \in 1..Len(flight_data) : "price" \notin DOMAIN flight_data[i]

\* C9: for a non-empty record list no record of which has the price field,
\* _assess_data_quality reports an issue naming price as a missing required
\* field and returns a quality_score of at most 75.
C9_MissingPriceReported ==
    (outcome.op = "_assess_data_quality" /\ flight_data # <<>> /\ NoRecordHasPrice) =>
        /\ ~outcome.raised
        /\ \E i \in 1..Len(outcome.value.issues) :
              /\ outcome.value.issues[i].text = "Missing required fields: {}"
              /\ "price" \in Range(outcome.value.issues[i].fields)
        /\ outcome.value.quality_score <= 75

C9_Witness ==
    /\ QualityAssessed
    /\ flight_data # <<>>
    /\ NoRecordHasPrice
    /\ outcome.value.issues[1].fields = <<"price">>
    /\ outcome.value.quality_score = 75

\* the distinct route keys among the records
DistinctRoutes == {RouteKey(flight_data[i]) : i \in 1..Len(flight_data)}

\* C10: the list analyze_popular_routes returns is no longer than topN, which is
\* 10, and no longer than the number of distinct route keys in the input.
C10_PopularRoutesLength ==
    (outcome.op = "analyze_popular_routes" /\ ~outcome.raised) =>
        /\ Len(outcome.value) <= 10
        /\ Len(outcome.value) <= Cardinality(DistinctRoutes)

C10_Witness ==
    /\ outcome.op = "analyze_popular_routes"
    /\ ~outcome.raised
    /\ Cardinality(DistinctRoutes) > 10
    /\ Len(outcome.value) = 10

\* C11: a call of _generate_mock_insights returns the bundle its first call
\* with the same record list returned, whatever was called in between and
\* whatever credential the analyzer holds
C11_MockIsDeterministic ==
    outcome.op = "_generate_mock_insights" =>
        /\ ~outcome.raised
        /\ first_mock.called
        /\ outcome.value = first_mock.value

\* a mock call on a non-empty list after a network call, made by an analyzer
\* whose credential differs from the one the first mock call saw
C11_Witness ==
    /\ outcome.op = "_generate_mock_insights"
    /\ flight_data # <<>>
    /\ "price" \in Columns(flight_data)
    /\ network_calls > 0
    /\ first_mock.called
    /\ Truthy(first_mock.key) # Truthy(api_key)

\* the records generate_sample_data returned, each with the draws it was made of
Generated == outcome.op = "generate_sample_data" /\ ~outcome.raised

BasePrice(i) ==
    IF outcome.value[i].is_domestic
    THEN rng.draws[i].randint_150_400
    ELSE rng.draws[i].randint_800_2500

BasePriceInRange(i) ==
    IF outcome.value[i].is_domestic
    THEN BasePrice(i) >= 150 /\ BasePrice(i) <= 400
    ELSE BasePrice(i) >= 800 /\ BasePrice(i) <= 2500

OnWeekend(i) == Weekday(outcome.value[i].date) \in {5, 6}

\* C16: every generated price is the base price times 1.2 on a Saturday or
\* Sunday and times 1 otherwise, rounded to the nearest integer
C16_PriceRoundedToNearest ==
    Generated =>
        \A i \in 1..Len(outcome.value) :
            LET price == outcome.value[i].price
            IN  /\ BasePriceInRange(i)
                /\ IF OnWeekend(i)
                   THEN 10 * price - 5 <= 12 * BasePrice(i) /\ 12 * BasePrice(i) < 10 * price + 5
                   ELSE price = BasePrice(i)

\* C16 (amended): every generated price is the base price times 1.2 on a
\* Saturday or Sunday and times 1 otherwise, with the fraction dropped
C16_PriceTruncated ==
    Generated =>
        \A i \in 1..Len(outcome.value) :
            LET price == outcome.value[i].price
            IN  /\ BasePriceInRange(i)
                /\ IF OnWeekend(i)
                   THEN 5 * price <= 6 * BasePrice(i) /\ 6 * BasePrice(i) < 5 * price + 5
                   ELSE price = BasePrice(i)

\* a weekend record whose base price times 1.2 has a fraction above one half,
\* next to a weekday record
C16_Witness ==
    /\ Generated
    /\ \E i \in 1..Len(outcome.value) :
           OnWeekend(i) /\ BasePrice(i) = 153 /\ outcome.value[i].price = 183
    /\ \E i \in 1..Len(outcome.value) :
           ~OnWeekend(i) /\ outcome.value[i].price = BasePrice(i)

\* C17: every generated record has a domestic origin, a destination other
\* than its origin, and is_domestic exactly when the destination is domestic
C17_OriginDestinationClassified ==
    Generated =>
        \A i \in 1..Len(outcome.value) :
            LET rec == outcome.value[i]
            IN  /\ \E k \in 1..DomesticCount : cities[k] = rec.origin
                /\ rec.destination # rec.origin
                /\ rec.is_domestic = (\E k \in 1..DomesticCount : cities[k] = rec.destination)

\* a record whose first destination draw was its origin, and records of both
\* classes
C17_Witness ==
    /\ Generated
    /\ \E i \in 1..Len(outcome.value) :
           /\ rng.draws[i].dest_draws[1] = outcome.value[i].origin
           /\ outcome.value[i].is_domestic
    /\ \E i \in 1..Len(outcome.value) : ~outcome.value[i].is_domestic

\* a handler answered with its except branch
HandlerFailed == http_response.handler # "none" /\ http_response.status = 500

\* C12: a handler that fails internally answers with a body of exactly the
\* keys success and error, success being false
C12_FailureShape ==
    HandlerFailed =>
        /\ DOMAIN http_response.body = {"success", "error"}
        /\ http_response.body.success = FALSE

\* C13: no request and no aggregation call changes a field of data_processor,
\* the analyzer's configuration or the record list an aggregation was given
C13_NoCrossRequestState ==
    [][UNCHANGED <<routes_data, price_trends, demand_patterns,
                   ctor_api_key, api_key, flight_data>>]_vars

\* a request was served and an aggregation has run on a non-empty list, and
\* data_processor still has the fields it was constructed with
C13_Witness ==
    /\ http_response.handler = "get_data"
    /\ http_response.status = 200
    /\ outcome.op = "analyze_price_trends"
    /\ ~outcome.raised
    /\ flight_data # <<>>
    /\ routes_data = <<>>
    /\ price_trends = EmptyDict
    /\ demand_patterns = EmptyDict

\* the last call got HTTP 200 with a message content that is not JSON
TextAnswered ==
    /\ AnalyzedTrends
    /\ response.kind = "http"
    /\ response.status_code = 200
    /\ response.body = "chat_completion"
    /\ json_loads(response.content).raised

\* C14: on HTTP 200 with a content that is not JSON the bundle's demand_insights
\* is the one-element list of the raw content and every other field, summary
\* included, is empty
C14_OtherFieldsEmpty ==
    TextAnswered =>
        /\ ~outcome.raised
        /\ outcome.value.demand_insights = <<Sentence(response.content, <<>>)>>
        /\ outcome.value.price_insights = <<>>
        /\ outcome.value.route_insights = <<>>
        /\ outcome.value.recommendations = <<>>
        /\ outcome.value.summary = ""

\* C14 (amended): on HTTP 200 with a content that is not JSON the bundle's
\* demand_insights is the one-element list of the raw content, the three other
\* lists are empty and summary is the fixed text "AI analysis completed"
C14_ListsEmptySummaryFixed ==
    TextAnswered =>
        /\ ~outcome.raised
        /\ DOMAIN outcome.value = BundleKeys
        /\ outcome.value.demand_insights = <<Sentence(response.content, <<>>)>>
        /\ outcome.value.price_insights = <<>>
        /\ outcome.value.route_insights = <<>>
        /\ outcome.value.recommendations = <<>>
        /\ outcome.value.summary = "AI analysis completed"

\* a credentialed call on a non-empty list answered with plain text
C14_Witness ==
    /\ TextAnswered
    /\ Truthy(api_key)
    /\ flight_data # <<>>
    /\ response.content = ContentText
    /\ outcome.value.demand_insights[1].text = ContentText

\* the fields the three aggregations of AirlineDataProcessor read
ExpectedFields == {"origin", "destination", "price", "date", "demand_score", "is_domestic"}

\* some record of the list lacks a field an aggregation reads
SomeRecordLacksField == \E i \in 1..Len(flight_data) : ~(ExpectedFields \subseteq DOMAIN flight_data[i])

\* C15: an aggregation given a record that lacks an expected field still
\* returns its structured result
C15_MissingFieldNotFatal ==
    (/\ outcome.op \in {"analyze_popular_routes", "analyze_price_trends", "get_demand_insights"}
     /\ SomeRecordLacksField)
        => ~outcome.raised

\* where a route key is first encountered in the input
FirstPosition(route) ==
    CHOOSE i \in 1..Len(flight_data) :
        /\ RouteKey(flight_data[i]) = route
        /\ \A j \in 1..(i - 1) : RouteKey(flight_data[j]) # route

\* a route's mean demand_score in tenths, as the rows show it
RouteAvgDemand(route) ==
    LET flights == SelectSeq(flight_data, LAMBDA f : RouteKey(f) = route)
    IN  RoundHalfEven(10 * SumSeq([i \in 1..Len(flights) |-> flights[i].demand_score]),
                      Len(flights))

\* row a ranks before row b: higher avg_demand, or equal and encountered first
RanksBefore(avg_a, route_a, avg_b, route_b) ==
    \/ avg_a > avg_b
    \/ avg_a = avg_b /\ FirstPosition(route_a) < FirstPosition(route_b)

\* C18: the popular-routes rows are in descending avg_demand order, rows of
\* equal avg_demand in the order their routes were first encountered, and
\* every route left out ranks after every row kept
C18_SortedStableThenTruncated ==
    (outcome.op = "analyze_popular_routes" /\ ~outcome.raised) =>
        LET rows == outcome.value
            kept == {rows[i].route : i \in 1..Len(rows)}
        IN  /\ \A i \in 1..Len(rows) : \A j \in (i + 1)..Len(rows) :
                   RanksBefore(rows[i].avg_demand, rows[i].route,
                               rows[j].avg_demand, rows[j].route)
            /\ \A i \in 1..Len(rows) : rows[i].avg_demand = RouteAvgDemand(rows[i].route)
            /\ \A route \in DistinctRoutes \ kept : \A i \in 1..Len(rows) :
                   RanksBefore(rows[i].avg_demand, rows[i].route,
                               RouteAvgDemand(route), route)

\* eleven routes of which ten are kept, two kept rows tie, and the route left
\* out ties with a kept row and was encountered before another kept route
C18_Witness ==
    /\ outcome.op = "analyze_popular_routes"
    /\ ~outcome.raised
    /\ Len(outcome.value) = 10
    /\ Cardinality(DistinctRoutes) = 11
    /\ \E i \in 1..9 : outcome.value[i].avg_demand = outcome.value[i + 1].avg_demand
    /\ \E route \in DistinctRoutes \ {outcome.value[i].route : i \in 1..10} :
           /\ RouteAvgDemand(route) = outcome.value[10].avg_demand
           /\ \E i \in 1..10 : FirstPosition(route) < FirstPosition(outcome.value[i].route)

\* the demand scores of one partition of the input
PartitionScores(dom) ==
    LET flights == SelectSeq(flight_data, LAMBDA f : f.is_domestic = dom)
    IN  [i \in 1..Len(flights) |-> flights[i].demand_score]

\* the comparison sentences of the returned insights
ComparisonTexts ==
    {outcome.value[i].text : i \in 1..Len(outcome.value)}
        \cap {"Domestic routes show higher demand ({:.1f}) compared to international routes ({:.1f})",
              "International routes show higher demand ({:.1f}) compared to domestic routes ({:.1f})"}

\* C19: get_demand_insights emits one comparison sentence exactly when both
\* partitions are non-empty, and the group it names has a mean demand_score
\* not below the other group's (on equal means either group is the higher)
C19_ComparisonNamesHigherGroup ==
    (outcome.op = "get_demand_insights" /\ ~outcome.raised) =>
        LET dom == PartitionScores(TRUE)
            intl == PartitionScores(FALSE)
        IN  /\ (ComparisonTexts # {}) = (dom # <<>> /\ intl # <<>>)
            /\ Cardinality(ComparisonTexts) <= 1
            /\ "Domestic routes show higher demand ({:.1f}) compared to international routes ({:.1f})"
                   \in ComparisonTexts
                   => SumSeq(dom) * Len(intl) >= SumSeq(intl) * Len(dom)
            /\ "International routes show higher demand ({:.1f}) compared to domestic routes ({:.1f})"
                   \in ComparisonTexts
                   => SumSeq(intl) * Len(dom) >= SumSeq(dom) * Len(intl)

\* both partitions are non-empty with equal means and a comparison sentence
\* was emitted
C19_Witness ==
    /\ outcome.op = "get_demand_insights"
    /\ ~outcome.raised
    /\ PartitionScores(TRUE) # <<>>
    /\ PartitionScores(FALSE) # <<>>
    /\ SumSeq(PartitionScores(TRUE)) * Len(PartitionScores(FALSE))
           = SumSeq(PartitionScores(FALSE)) * Len(PartitionScores(TRUE))
    /\ ComparisonTexts # {}

\* how many records of the input fly a route
RouteCount(route) == Cardinality({i \in 1..Len(flight_data) : RouteKey(flight_data[i]) = route})

\* C20: the top_routes of the data summary are the five most frequent routes:
\* no route left out has more records than a route listed, and each listed
\* route carries its record count
C20_TopRoutesMostFrequent ==
    outcome.op = "_prepare_data_summary" =>
        LET top == top_routes(flight_data)
        IN  /\ \A route \in DOMAIN top : top[route] = RouteCount(route)
            /\ \A omitted \in DistinctRoutes \ DOMAIN top : \A listed \in DOMAIN top :
                   RouteCount(omitted) <= top[listed]

====
